---------------------------- MODULE Spec2Model ----------------------------
(***************************************************************************)
(* Model of run-with-policy.js, the wrapper that resolves its              *)
(* configuration from argv and the environment, checks the two             *)
(* directories and runs `pulumi <command> ... --policy-pack <dir>`.        *)
(*                                                                         *)
(* One run of the script is one behaviour: the module-level call of        *)
(* parseArgs() (lines 48-113), then main() (lines 193-254), step by step.  *)
(* The inputs of a run are argv, the environment, the disk and the child   *)
(* process's result.  The disk is static; what a path holds is revealed    *)
(* the first time the script looks at it and stays the same afterwards.    *)
(*                                                                         *)
(* Line numbers are those of src/run-with-policy.js; its lines 301-515     *)
(* repeat the same script without buildPolicyPack.  The banner that main   *)
(* logs (lines 194-211) changes nothing and is left out of `logged`.       *)
(***************************************************************************)
EXTENDS Integers, Sequences, FiniteSets, TLC

\* Longest argv (process.argv.slice(2)) that is explored.
MaxArgs == 3

VARIABLES
    argv,               \* process.argv.slice(2)
    env,                \* process.env: POLICY_DIR, PULUMI_PROJECT_DIR, PULUMI_STACK
    disk,               \* what the script has seen on disk: absolute path -> kind
    pc,                 \* where the script is
    POLICY_PACK_DIR,    \* line 109
    PULUMI_PROJECT_DIR, \* line 109
    initialCommand,     \* line 109
    initialArgs,        \* line 109
    PULUMI_STACK,       \* line 112
    checked,            \* the paths handed to directoryExists, in order
    spawned,            \* the spawnSync calls made, in order
    pulumiResult,       \* line 246: <<>> before the call, else <<status>>
    logged,             \* the messages that tell the outcome, in order
    exited,             \* the process has ended
    exitCode,           \* its exit status, once exited
    instance,           \* the EC2 instance handed to the policy pack's callback
    validated,          \* the callback has run on it
    violations          \* what it passed to reportViolation, in order

vars == <<argv, env, disk, pc, POLICY_PACK_DIR, PULUMI_PROJECT_DIR, initialCommand,
          initialArgs, PULUMI_STACK, checked, spawned, pulumiResult, logged,
          exited, exitCode, instance, validated, violations>>

\* The state of the policy pack, which a run of the wrapper never touches.
policyVars == <<instance, validated, violations>>

---------------------------------------------------------------------------
(* Tokens and environment values explored *)

WrapperFlags == {"--policy-dir", "--project-dir", "--stack"}

HelpFlags == {"--help", "-h"}

\* line 74
Commands == {"preview", "up", "refresh", "destroy"}

\* Any other token: a value, a pulumi flag, or the empty string.
OtherTokens == {"dev", ""}

Tokens == WrapperFlags \cup HelpFlags \cup Commands \cup OtherTokens

ArgvSpace == UNION {[1..n -> Tokens] : n \in 0..MaxArgs}

EnvSpace == [POLICY_DIR : {"", "./policies"},
             PULUMI_PROJECT_DIR : {"", "/srv/project"},
             PULUMI_STACK : {"", "prod"}]

Range(s) == {s[k] : k \in 1..Len(s)}

---------------------------------------------------------------------------
(* Paths: path.resolve, path.join(__dirname, ...), fs.existsSync, fs.statSync *)

\* process.cwd()
Cwd == <<"work">>

\* __dirname of run-with-policy.js
Dirname == <<"opt", "runner">>

\* A path string cut at its separators: whether it is rooted, and its segments.
SplitPath(p) ==
    CASE p = "" -> [abs |-> FALSE, segs |-> <<>>]
      [] p = "./pulumiPolicy" -> [abs |-> FALSE, segs |-> <<".", "pulumiPolicy">>]
      [] p = "./policies" -> [abs |-> FALSE, segs |-> <<".", "policies">>]
      [] p = "/srv/project" -> [abs |-> TRUE, segs |-> <<"srv", "project">>]
      [] p = "/opt/runner/pulumiPolicy" -> [abs |-> TRUE, segs |-> Dirname \o <<"pulumiPolicy">>]
      [] p = "/opt/runner/pulumiTemplate" -> [abs |-> TRUE, segs |-> Dirname \o <<"pulumiTemplate">>]
      [] OTHER -> [abs |-> FALSE, segs |-> <<p>>]

\* path.join(__dirname, name), as the string it returns.
JoinDirname(name) ==
    CASE name = "pulumiPolicy" -> "/opt/runner/pulumiPolicy"
      [] name = "pulumiTemplate" -> "/opt/runner/pulumiTemplate"

RECURSIVE Normalize(_, _)
\* The segments of a path with "." and "" dropped and ".." applied.
Normalize(segs, acc) ==
    IF segs = <<>> THEN acc
    ELSE IF Head(segs) \in {".", ""} THEN Normalize(Tail(segs), acc)
    ELSE IF Head(segs) = ".."
         THEN Normalize(Tail(segs), IF acc = <<>> THEN acc ELSE SubSeq(acc, 1, Len(acc) - 1))
    ELSE Normalize(Tail(segs), Append(acc, Head(segs)))

\* path.resolve(p): the absolute, normalised path of p, relative paths under the cwd.
PathResolve(p) ==
    LET s == SplitPath(p)
    IN  [abs |-> TRUE,
         segs |-> Normalize(IF s.abs THEN s.segs ELSE Cwd \o s.segs, <<>>)]

\* What a path can be on disk.
Kinds == {"missing", "file", "dir"}

\* The kinds path `p` may turn out to have: the one seen before, else any.
KindsOf(p) == IF p \in DOMAIN disk THEN {disk[p]} ELSE Kinds

\* The disk after `p` was seen to be of kind `k`.
Seen(p, k) == IF p \in DOMAIN disk THEN disk ELSE (p :> k) @@ disk

\* fs.existsSync on a path of kind k.
ExistsSync(k) == k # "missing"

\* A mutant of DirectoryExists: anything that exists passes.
DirectoryExistsAny(k) == k # "missing"

\* directoryExists (lines 182-188) on a path of kind k.
DirectoryExists(k) == k = "dir"

---------------------------------------------------------------------------
(* parseArgs, lines 48-106 *)

\* A mutant of HasHelp: only --help is looked for.
HasHelpLongOnly(args) == "--help" \in Range(args)

\* line 52
HasHelp(args) == "--help" \in Range(args) \/ "-h" \in Range(args)

\* lines 57-61: the locals of parseArgs before the loop.
ScanInit(e) ==
    [policyDir |-> e.POLICY_DIR,
     projectDir |-> e.PULUMI_PROJECT_DIR,
     stack |-> e.PULUMI_STACK,
     command |-> "preview",
     remainingArgs |-> <<>>]

\* A mutant of IsCommand: destroy is not taken as a command.
IsCommandNoDestroy(tok) == tok \in Commands \ {"destroy"}

\* line 74
IsCommand(tok) == tok \in Commands

\* lines 65, 68, 71: args[i] is `flag` and a token follows it.
TakesValue(args, i, flag) == args[i] = flag /\ i + 1 <= Len(args)

\* A mutant of OnCommand: a wrapper flag right after the command is still read.
OnCommandReadsFlag(args, i, st) ==
    LET done == [st EXCEPT !.command = args[i],
                           !.remainingArgs = SubSeq(args, i + 1, Len(args))]
    IN  IF i + 2 <= Len(args) /\ args[i + 1] = "--policy-dir"
        THEN [done EXCEPT !.policyDir = args[i + 2]]
        ELSE IF i + 2 <= Len(args) /\ args[i + 1] = "--project-dir"
        THEN [done EXCEPT !.projectDir = args[i + 2]]
        ELSE done

\* lines 75-76: the command literal at args[i].
OnCommand(args, i, st) ==
    [st EXCEPT !.command = args[i],
               !.remainingArgs = SubSeq(args, i + 1, Len(args))]

\* A mutant of SetOption: a value from the environment is not overridden.
SetOptionEnvFirst(st, flag, value) ==
    CASE flag = "--policy-dir" ->
            IF st.policyDir = "" THEN [st EXCEPT !.policyDir = value] ELSE st
      [] flag = "--project-dir" ->
            IF st.projectDir = "" THEN [st EXCEPT !.projectDir = value] ELSE st
      [] flag = "--stack" ->
            IF st.stack = "" THEN [st EXCEPT !.stack = value] ELSE st

\* lines 66, 69, 72: the local that `flag` names is set to the token after it.
SetOption(st, flag, value) ==
    CASE flag = "--policy-dir" -> [st EXCEPT !.policyDir = value]
      [] flag = "--project-dir" -> [st EXCEPT !.projectDir = value]
      [] flag = "--stack" -> [st EXCEPT !.stack = value]

\* A mutant of OnOther: a wrapper flag that takes no value is dropped.
OnOtherDropsFlags(args, i, st) ==
    IF args[i] \in {"--policy-dir", "--project-dir", "--stack"}
    THEN st
    ELSE [st EXCEPT !.remainingArgs = Append(@, args[i])]

\* lines 78-80: any other token at args[i] is pushed onto remainingArgs.
OnOther(args, i, st) == [st EXCEPT !.remainingArgs = Append(@, args[i])]

RECURSIVE ScanArgs(_, _, _)
\* lines 64-81: the loop from index i (1-based) with locals st.
ScanArgs(args, i, st) ==
    IF i > Len(args) THEN st
    ELSE IF TakesValue(args, i, "--policy-dir")
         THEN ScanArgs(args, i + 2, SetOption(st, "--policy-dir", args[i + 1]))
    ELSE IF TakesValue(args, i, "--project-dir")
         THEN ScanArgs(args, i + 2, SetOption(st, "--project-dir", args[i + 1]))
    ELSE IF TakesValue(args, i, "--stack")
         THEN ScanArgs(args, i + 2, SetOption(st, "--stack", args[i + 1]))
    ELSE IF IsCommand(args[i])
         THEN OnCommand(args, i, st)
    ELSE ScanArgs(args, i + 1, OnOther(args, i, st))

\* lines 86-92: the default policyDir, ./pulumiPolicy being of kind k on disk.
DefaultPolicyDir(k) ==
    IF ExistsSync(k) THEN "./pulumiPolicy" ELSE JoinDirname("pulumiPolicy")

\* line 95
DefaultProjectDir == JoinDirname("pulumiTemplate")

---------------------------------------------------------------------------
(* main, lines 193-254, and runCommand, lines 136-144 *)

\* An argument handed to spawnSync: a string as it was given ...
Tok(s) == [str |-> s]

\* ... or an absolute path the script computed.
PathTok(p) == [path |-> p]

Toks(args) == [k \in 1..Len(args) |-> Tok(args[k])]

\* A mutant of NeedsStack: the stack is added whatever the arguments hold.
NeedsStackAlways(stack, args) == stack # ""

\* line 236
NeedsStack(stack, args) == stack # "" /\ "--stack" \notin Range(args)

\* A mutant of StackArgs: the stack goes after the passthrough arguments.
StackArgsAppended(stack, args) ==
    IF NeedsStack(stack, args)
    THEN Toks(args) \o <<Tok("--stack"), Tok(stack)>>
    ELSE Toks(args)

\* lines 233-239: pulumiArgs after the stack was added.
StackArgs(stack, args) ==
    IF NeedsStack(stack, args)
    THEN <<Tok("--stack"), Tok(stack)>> \o Toks(args)
    ELSE Toks(args)

\* A mutant of PulumiArgv: the policy pack goes before the other arguments.
PulumiArgvPackFirst(command, args, stack, policyDir) ==
    <<Tok(command), Tok("--policy-pack"), PathTok(policyDir)>> \o StackArgs(stack, args)

\* lines 232-246: the argument list handed to runCommand('pulumi', ...).
PulumiArgv(command, args, stack, policyDir) ==
    <<Tok(command)>> \o StackArgs(stack, args)
        \o <<Tok("--policy-pack"), PathTok(policyDir)>>

\* spawnSync's result.status: an exit status, or <<>> for null (the child could
\* not be started, or a signal ended it).
ChildResults == {<<0>>, <<7>>, <<>>}

\* A mutant of ProcessExit: every failure ends with status 1.
ProcessExitOne(code) == 1

\* process.exit(code), line 252: null ends the process with the default status 0.
ProcessExit(code) == IF code = <<>> THEN 0 ELSE code[1]

\* The value of the configuration before parseArgs has returned.
NoPath == [abs |-> FALSE, segs |-> <<>>]

LocalPolicyDir == PathResolve("./pulumiPolicy")

---------------------------------------------------------------------------
(* The policy pack: requireEC2InstanceTags, src/unnamed/part_000 lines 22-39 *)
(* (compiled: src/unnamed/part_001 lines 21-37)                              *)

InstanceTypes == {"t2.micro", "t3.small"}

TagNames == {"Owner", "Environment", "CostCenter", "Name"}

TagValues == {"", "team-a"}

\* instance.tags: <<>> when undefined, else <<t>> with t a map of some tag names.
TagMaps == {<<>>} \cup {<<t>> : t \in UNION {[D -> TagValues] : D \in SUBSET TagNames}}

InstanceSpace == [instanceType : InstanceTypes, tags : TagMaps]

\* The instance of a state where no policy is being evaluated.
NoInstance == [instanceType |-> "", tags |-> <<>>]

\* line 27
RequiredTags == <<"Owner", "Environment", "CostCenter">>

\* line 28: instance.tags || {}
TagsOrEmpty(inst) == IF inst.tags = <<>> THEN <<>> ELSE inst.tags[1]

\* A mutant of TagMissing: an empty value counts as a tag.
TagMissingAbsentOnly(tags, tag) == tag \notin DOMAIN tags

\* line 34: !tags[tag]
TagMissing(tags, tag) == tag \notin DOMAIN tags \/ tags[tag] = ""

\* The two messages of the policy, by what they are about.
TypeViolation == [about |-> "instanceType", tag |-> ""]

TagViolation(tag) == [about |-> "tag", tag |-> tag]

\* line 30
WrongType(inst) == inst.instanceType # "t2.micro"

\* lines 26-37: the calls of reportViolation the callback makes on inst, in order.
RequireEC2InstanceTags(inst) ==
    LET tags == TagsOrEmpty(inst)
        missing(tag) == TagMissing(tags, tag)
        lacking == SelectSeq(RequiredTags, missing)
    IN  (IF WrongType(inst) THEN <<TypeViolation>> ELSE <<>>)
           \o [n \in 1..Len(lacking) |-> TagViolation(lacking[n])]

---------------------------------------------------------------------------
(* The run *)

\* The wrapper before it starts.
WrapperStart ==
    /\ disk = <<>>
    /\ pc = "parseArgs"
    /\ POLICY_PACK_DIR = NoPath
    /\ PULUMI_PROJECT_DIR = NoPath
    /\ initialCommand = ""
    /\ initialArgs = <<>>
    /\ PULUMI_STACK = ""
    /\ checked = <<>>
    /\ spawned = <<>>
    /\ pulumiResult = <<>>
    /\ logged = <<>>
    /\ exited = FALSE
    /\ exitCode = 0

Init ==
    /\ instance = NoInstance
    /\ validated = FALSE
    /\ violations = <<>>
    /\ argv \in ArgvSpace
    /\ env \in EnvSpace
    /\ WrapperStart

\* lines 52-54 and 8-45: --help or -h anywhere prints the usage and exits 0.
ShowHelp ==
    /\ pc = "parseArgs"
    /\ HasHelp(argv)
    /\ logged' = Append(logged, "usage")
    /\ exited' = TRUE
    /\ exitCode' = 0
    /\ pc' = "exited"
    /\ UNCHANGED <<policyVars, argv, env, disk, POLICY_PACK_DIR, PULUMI_PROJECT_DIR, initialCommand,
                   initialArgs, PULUMI_STACK, checked, spawned, pulumiResult>>

\* lines 56-113: parseArgs() without a help flag, and the constants set from it.
ParseArgs ==
    /\ pc = "parseArgs"
    /\ ~HasHelp(argv)
    /\ LET st == ScanArgs(argv, 1, ScanInit(env))
       IN  /\ \/ /\ st.policyDir # ""
                 /\ POLICY_PACK_DIR' = PathResolve(st.policyDir)
                 /\ disk' = disk
              \/ /\ st.policyDir = ""
                 /\ \E k \in KindsOf(LocalPolicyDir) :
                       /\ disk' = Seen(LocalPolicyDir, k)
                       /\ POLICY_PACK_DIR' = PathResolve(DefaultPolicyDir(k))
           /\ PULUMI_PROJECT_DIR' =
                 PathResolve(IF st.projectDir # "" THEN st.projectDir ELSE DefaultProjectDir)
           /\ initialCommand' = st.command
           /\ initialArgs' = st.remainingArgs
    /\ PULUMI_STACK' = env.PULUMI_STACK
    /\ pc' = "main"
    /\ UNCHANGED <<policyVars, argv, env, checked, spawned, pulumiResult, logged, exited, exitCode>>

\* A mutant of PolicyDirMissing: the error is logged and main goes on.
PolicyDirMissingGoesOn ==
    /\ pc = "main"
    /\ \E k \in KindsOf(POLICY_PACK_DIR) :
          /\ ~DirectoryExists(k)
          /\ disk' = Seen(POLICY_PACK_DIR, k)
    /\ checked' = Append(checked, POLICY_PACK_DIR)
    /\ logged' = Append(logged, "policy pack directory not found")
    /\ pc' = "checkProjectDir"
    /\ UNCHANGED <<policyVars, argv, env, POLICY_PACK_DIR, PULUMI_PROJECT_DIR,
                   initialCommand, initialArgs, PULUMI_STACK, spawned, pulumiResult,
                   exited, exitCode>>

\* lines 214-217: the policy directory is not a directory.
PolicyDirMissing ==
    /\ pc = "main"
    /\ \E k \in KindsOf(POLICY_PACK_DIR) :
          /\ ~DirectoryExists(k)
          /\ disk' = Seen(POLICY_PACK_DIR, k)
    /\ checked' = Append(checked, POLICY_PACK_DIR)
    /\ logged' = Append(logged, "policy pack directory not found")
    /\ exited' = TRUE
    /\ exitCode' = 1
    /\ pc' = "exited"
    /\ UNCHANGED <<policyVars, argv, env, POLICY_PACK_DIR, PULUMI_PROJECT_DIR, initialCommand,
                   initialArgs, PULUMI_STACK, spawned, pulumiResult>>

\* line 214: the policy directory is there.
PolicyDirFound ==
    /\ pc = "main"
    /\ \E k \in KindsOf(POLICY_PACK_DIR) :
          /\ DirectoryExists(k)
          /\ disk' = Seen(POLICY_PACK_DIR, k)
    /\ checked' = Append(checked, POLICY_PACK_DIR)
    /\ pc' = "checkProjectDir"
    /\ UNCHANGED <<policyVars, argv, env, POLICY_PACK_DIR, PULUMI_PROJECT_DIR, initialCommand,
                   initialArgs, PULUMI_STACK, spawned, pulumiResult, logged, exited,
                   exitCode>>

\* lines 219-222: the project directory is not a directory.
ProjectDirMissing ==
    /\ pc = "checkProjectDir"
    /\ \E k \in KindsOf(PULUMI_PROJECT_DIR) :
          /\ ~DirectoryExists(k)
          /\ disk' = Seen(PULUMI_PROJECT_DIR, k)
    /\ checked' = Append(checked, PULUMI_PROJECT_DIR)
    /\ logged' = Append(logged, "project directory not found")
    /\ exited' = TRUE
    /\ exitCode' = 1
    /\ pc' = "exited"
    /\ UNCHANGED <<policyVars, argv, env, POLICY_PACK_DIR, PULUMI_PROJECT_DIR, initialCommand,
                   initialArgs, PULUMI_STACK, spawned, pulumiResult>>

\* line 219: the project directory is there.
ProjectDirFound ==
    /\ pc = "checkProjectDir"
    /\ \E k \in KindsOf(PULUMI_PROJECT_DIR) :
          /\ DirectoryExists(k)
          /\ disk' = Seen(PULUMI_PROJECT_DIR, k)
    /\ checked' = Append(checked, PULUMI_PROJECT_DIR)
    /\ pc' = "runPulumi"
    /\ UNCHANGED <<policyVars, argv, env, POLICY_PACK_DIR, PULUMI_PROJECT_DIR, initialCommand,
                   initialArgs, PULUMI_STACK, spawned, pulumiResult, logged, exited,
                   exitCode>>

\* lines 231-246 and 136-144: the arguments are built and pulumi is run to its end.
RunPulumi ==
    /\ pc = "runPulumi"
    /\ spawned' = Append(spawned,
          [file |-> "pulumi",
           args |-> PulumiArgv(initialCommand, initialArgs, PULUMI_STACK, POLICY_PACK_DIR),
           cwd |-> PULUMI_PROJECT_DIR])
    /\ \E r \in ChildResults : pulumiResult' = r
    /\ logged' = IF NeedsStack(PULUMI_STACK, initialArgs)
                 THEN Append(logged, "adding stack parameter")
                 ELSE logged
    /\ pc' = "result"
    /\ UNCHANGED <<policyVars, argv, env, disk, POLICY_PACK_DIR, PULUMI_PROJECT_DIR, initialCommand,
                   initialArgs, PULUMI_STACK, checked, exited, exitCode>>

\* lines 248-249: status 0; main returns and the process ends with status 0.
PulumiSucceeded ==
    /\ pc = "result"
    /\ pulumiResult = <<0>>
    /\ logged' = Append(logged, "completed successfully")
    /\ exited' = TRUE
    /\ exitCode' = 0
    /\ pc' = "exited"
    /\ UNCHANGED <<policyVars, argv, env, disk, POLICY_PACK_DIR, PULUMI_PROJECT_DIR, initialCommand,
                   initialArgs, PULUMI_STACK, checked, spawned, pulumiResult>>

\* lines 250-253: any other result; the process exits with it.
PulumiFailed ==
    /\ pc = "result"
    /\ pulumiResult # <<0>>
    /\ logged' = Append(logged, "failed or policy violations detected")
    /\ exited' = TRUE
    /\ exitCode' = ProcessExit(pulumiResult)
    /\ pc' = "exited"
    /\ UNCHANGED <<policyVars, argv, env, disk, POLICY_PACK_DIR, PULUMI_PROJECT_DIR, initialCommand,
                   initialArgs, PULUMI_STACK, checked, spawned, pulumiResult>>

Next ==
    \/ ShowHelp
    \/ ParseArgs
    \/ PolicyDirMissing
    \/ PolicyDirFound
    \/ ProjectDirMissing
    \/ ProjectDirFound
    \/ RunPulumi
    \/ PulumiSucceeded
    \/ PulumiFailed

Spec == Init /\ [][Next]_vars

---------------------------------------------------------------------------
(* The policy pack evaluated on one EC2 instance *)

PolicyInit ==
    /\ instance \in InstanceSpace
    /\ validated = FALSE
    /\ violations = <<>>
    /\ argv = <<>>
    /\ env = [POLICY_DIR |-> "", PULUMI_PROJECT_DIR |-> "", PULUMI_STACK |-> ""]
    /\ WrapperStart

\* part_000 lines 26-38: validateResource is called on the instance.
ValidateResource ==
    /\ ~validated
    /\ instance \in InstanceSpace
    /\ violations' = RequireEC2InstanceTags(instance)
    /\ validated' = TRUE
    /\ UNCHANGED <<instance, argv, env, disk, pc, POLICY_PACK_DIR, PULUMI_PROJECT_DIR,
                   initialCommand, initialArgs, PULUMI_STACK, checked, spawned,
                   pulumiResult, logged, exited, exitCode>>

PolicyNext == ValidateResource

PolicySpec == PolicyInit /\ [][PolicyNext]_vars

---------------------------------------------------------------------------
(* What the claims speak of, read off argv *)

RECURSIVE ScanPositions(_, _)
\* The positions from k on that the left-to-right scan looks at when no command
\* literal stops it: a wrapper flag with a token after it consumes that token.
ScanPositions(args, k) ==
    IF k > Len(args) THEN {}
    ELSE {k} \cup ScanPositions(args, IF args[k] \in WrapperFlags THEN k + 2 ELSE k + 1)

\* Position k of args is one the scan looks at, not a consumed value.
AtScan(args, k) == k \in ScanPositions(args, 1)

Min(S) == CHOOSE x \in S : \A y \in S : x <= y

Max(S) == CHOOSE x \in S : \A y \in S : x >= y

\* The position of the first command literal the scan meets, Len(args) + 1 if none.
CommandAt(args) ==
    LET S == {k \in ScanPositions(args, 1) : args[k] \in Commands}
    IN  IF S = {} THEN Len(args) + 1 ELSE Min(S)

\* The positions where `flag`, with a value after it, stands before the command.
FlagPairs(args, flag) ==
    LET c == CommandAt(args)
    IN  {k \in 1..(Len(args) - 1) : args[k] = flag /\ k + 1 < c}

\* Those of them the scan takes as the flag (not as another flag's value).
FlagsTaken(args, flag) ==
    LET c == CommandAt(args)
    IN  {k \in ScanPositions(args, 1) : k < Len(args) /\ args[k] = flag /\ k + 1 < c}

\* The tokens of args that are neither a wrapper flag taken with its value nor
\* the command literal, in their order.
Forwarded(args) ==
    LET c == CommandAt(args)
        P == ScanPositions(args, 1)
        keep(k) == \/ k > c
                   \/ /\ k < c
                      /\ k \in P
                      /\ ~(args[k] \in WrapperFlags /\ k + 1 <= Len(args))
        idx == SelectSeq([k \in 1..Len(args) |-> k], keep)
    IN  [n \in 1..Len(idx) |-> args[idx[n]]]

HelpAsked == \E k \in 1..Len(argv) : argv[k] \in HelpFlags

\* parseArgs has returned a configuration.
Parsed == pc # "parseArgs" /\ ~HelpAsked

---------------------------------------------------------------------------
(* C1: a directory flag before the command overrides the environment *)

DirRule(flag, envValue, field) ==
    LET T == FlagsTaken(argv, flag)
    IN  IF T # {}
        THEN argv[Max(T) + 1] # ""
                => field = PathResolve(argv[Max(T) + 1]) /\ field.abs
        ELSE envValue # "" => field = PathResolve(envValue) /\ field.abs

---------------------------------------------------------------------------
(* C2: --stack X reaches pulumi *)

\* C2 as stated: when `--stack X` with its value stands before the command
\* literal, the stack is X whatever PULUMI_STACK holds and the pulumi
\* invocation carries `--stack X`. X is taken to be a plain value (not empty,
\* not itself a flag or a command), as in `--stack dev up`.
C2_StackFlagCarried ==
    \A j \in 1..Len(spawned) :
       LET T == FlagsTaken(argv, "--stack")
           a == spawned[j].args
       IN  /\ T # {}
           /\ CommandAt(argv) <= Len(argv)
           /\ argv[Max(T) + 1] \notin WrapperFlags \cup Commands \cup {""}
           => \E n \in 1..(Len(a) - 1) :
                 a[n] = Tok("--stack") /\ a[n + 1] = Tok(argv[Max(T) + 1])

---------------------------------------------------------------------------
(* C3: the command and the passthrough arguments *)

\* C3: the command is the first token the scan meets (consumed flag values
\* skipped) that is one of preview, up, refresh, destroy, and passthroughArgs
\* is exactly the tokens after it, in order; with no command literal the
\* command is preview. The command is always one of the four literals.
C3_CommandAndPassthrough ==
    Parsed =>
      /\ initialCommand \in {"preview", "up", "refresh", "destroy"}
      /\ IF CommandAt(argv) <= Len(argv)
         THEN /\ initialCommand = argv[CommandAt(argv)]
              /\ initialArgs = SubSeq(argv, CommandAt(argv) + 1, Len(argv))
         ELSE initialCommand = "preview"

\* A command literal consumed as a flag's value is skipped and a later one,
\* with a token after it, is the command.
C3_Witness ==
    /\ Parsed
    /\ Len(argv) >= 3
    /\ argv[1] \in WrapperFlags
    /\ argv[2] \in Commands
    /\ CommandAt(argv) = 3
    /\ initialCommand = argv[3]
    /\ initialCommand # argv[2]

---------------------------------------------------------------------------
(* C4, C5, C6: the invocation *)

\* The last two arguments of every invocation.
PolicyPackTail == <<Tok("--policy-pack"), PathTok(POLICY_PACK_DIR)>>

\* C4: with PULUMI_STACK = S not empty and no `--stack` among passthroughArgs,
\* pulumi gets [command, --stack, S, ...passthroughArgs, --policy-pack, policyDir].
C4_StackAfterCommand ==
    \A j \in 1..Len(spawned) :
       env.PULUMI_STACK # "" /\ (\A k \in 1..Len(initialArgs) : initialArgs[k] # "--stack")
          => spawned[j].args =
                <<Tok(initialCommand), Tok("--stack"), Tok(env.PULUMI_STACK)>>
                   \o Toks(initialArgs) \o PolicyPackTail

\* pulumi was run with the environment's stack ahead of a passthrough argument.
C4_Witness ==
    /\ spawned # <<>>
    /\ env.PULUMI_STACK = "prod"
    /\ initialArgs = <<"dev">>
    /\ spawned[1].args[2] = Tok("--stack")
    /\ spawned[1].args[4] = Tok("dev")

\* C5: with `--stack` already among passthroughArgs nothing is injected, the
\* passthrough arguments reach pulumi unchanged and in order; with no stack
\* set anywhere (PULUMI_STACK empty, no `--stack` in argv) no `--stack` token
\* is forwarded.
C5_NoDuplicateStack ==
    \A j \in 1..Len(spawned) :
       /\ (\E k \in 1..Len(initialArgs) : initialArgs[k] = "--stack")
             => spawned[j].args =
                   <<Tok(initialCommand)>> \o Toks(initialArgs) \o PolicyPackTail
       /\ (env.PULUMI_STACK = "" /\ (\A k \in 1..Len(argv) : argv[k] # "--stack"))
             => \A n \in 1..Len(spawned[j].args) : spawned[j].args[n] # Tok("--stack")

\* pulumi was run with PULUMI_STACK set and the user's own --stack after the command.
C5_Witness ==
    /\ spawned # <<>>
    /\ env.PULUMI_STACK = "prod"
    /\ initialArgs = <<"--stack", "dev">>
    /\ Len(spawned[1].args) = 5

\* C6: every subprocess is the binary pulumi, its first argument the resolved
\* command, its last two `--policy-pack` and the absolute policyDir, its
\* working directory projectDir.
C6_InvocationShape ==
    \A j \in 1..Len(spawned) :
       LET a == spawned[j].args
       IN  /\ spawned[j].file = "pulumi"
           /\ Len(a) >= 3
           /\ a[1] = Tok(initialCommand)
           /\ initialCommand \in {"preview", "up", "refresh", "destroy"}
           /\ a[Len(a) - 1] = Tok("--policy-pack")
           /\ a[Len(a)] = PathTok(POLICY_PACK_DIR)
           /\ POLICY_PACK_DIR.abs
           /\ spawned[j].cwd = PULUMI_PROJECT_DIR
           /\ PULUMI_PROJECT_DIR.abs

\* pulumi was run with an injected stack and a passthrough argument before the pack.
C6_Witness ==
    /\ spawned # <<>>
    /\ Len(spawned[1].args) = 6
    /\ FlagsTaken(argv, "--project-dir") # {}
    /\ spawned[1].cwd = [abs |-> TRUE, segs |-> <<"work", "dev">>]

---------------------------------------------------------------------------
(* C7: a missing directory *)

\* Path p was looked at and is not a directory (missing, or a regular file).
NotADirectory(p) == p \in DOMAIN disk /\ disk[p] # "dir"

\* C7: if policyDir or projectDir is not a directory on disk, no subprocess is
\* ever started, the run ends at the failing check and its status is 1.
C7_MissingDirectoryExitsOne ==
    Parsed /\ (NotADirectory(POLICY_PACK_DIR) \/ NotADirectory(PULUMI_PROJECT_DIR))
       => /\ spawned = <<>>
          /\ pc \in {"main", "exited"}
          /\ (exited => exitCode = 1)
          /\ (\E n \in 1..Len(checked) : NotADirectory(checked[n]))
                => exited /\ exitCode = 1

\* The policy directory is there, the project directory is a regular file.
C7_Witness ==
    /\ exited
    /\ Len(checked) = 2
    /\ disk[POLICY_PACK_DIR] = "dir"
    /\ disk[PULUMI_PROJECT_DIR] = "file"
    /\ exitCode = 1

---------------------------------------------------------------------------
(* C8: the child's status *)

\* C8: when the child exits with status n, the wrapper reports success and
\* ends with 0 if n = 0, reports failure and ends with exactly n otherwise,
\* and in both cases ends after that single child.
C8_StatusPropagated ==
    /\ Len(spawned) <= 1
    /\ (pc = "result" => Len(spawned) = 1 /\ ~exited)
    /\ (exited /\ spawned # <<>> /\ pulumiResult # <<>>)
          => IF pulumiResult[1] = 0
             THEN exitCode = 0 /\ logged[Len(logged)] = "completed successfully"
             ELSE /\ exitCode = pulumiResult[1]
                  /\ logged[Len(logged)] = "failed or policy violations detected"

\* The child ended with status 7 and so did the wrapper.
C8_Witness ==
    /\ exited
    /\ Len(spawned) = 1
    /\ pulumiResult = <<7>>
    /\ exitCode = 7

---------------------------------------------------------------------------
(* C9: help *)

\* C9: with --help or -h anywhere in argv the wrapper prints the usage and
\* exits 0 without resolving the configuration, checking a directory or
\* starting a subprocess.
C9_HelpShortCircuits ==
    HelpAsked /\ pc # "parseArgs"
       => /\ exited /\ exitCode = 0
          /\ logged = <<"usage">>
          /\ disk = <<>> /\ checked = <<>> /\ spawned = <<>>
          /\ POLICY_PACK_DIR = NoPath /\ PULUMI_PROJECT_DIR = NoPath
          /\ initialCommand = "" /\ initialArgs = <<>>

\* -h in the place of a flag's value, after a command literal.
C9_Witness ==
    /\ exited
    /\ Len(argv) = 3
    /\ argv[1] \in Commands
    /\ argv[2] \in WrapperFlags
    /\ argv[3] = "-h"
    /\ logged = <<"usage">>

---------------------------------------------------------------------------
(* C10: the default policy directory *)

\* C10 as stated: with neither --policy-dir nor a non-empty POLICY_DIR,
\* policyDir is ./pulumiPolicy under the working directory if that is a
\* directory, and otherwise pulumiPolicy under the install location; a
\* ./pulumiPolicy that is not a directory does not select the first.
C10_DefaultPolicyDir ==
    (Parsed /\ env.POLICY_DIR = "" /\ (\A k \in 1..Len(argv) : argv[k] # "--policy-dir"))
       => LET local == [abs |-> TRUE, segs |-> <<"work", "pulumiPolicy">>]
          IN  /\ local \in DOMAIN disk
              /\ IF disk[local] = "dir"
                 THEN POLICY_PACK_DIR = local
                 ELSE POLICY_PACK_DIR =
                         [abs |-> TRUE, segs |-> <<"opt", "runner", "pulumiPolicy">>]

---------------------------------------------------------------------------
(* C11: the child cannot be started *)

\* C11: if the pulumi child cannot be spawned (spawnSync returns no exit
\* status), the wrapper ends with status 1.
C11_SpawnFailureExitsOne ==
    exited /\ spawned # <<>> /\ pulumiResult = <<>> => exitCode = 1

---------------------------------------------------------------------------
(* C12: tokens before the command *)

\* C12: every token of argv that is neither a wrapper flag with its value nor
\* the command literal is forwarded unchanged, tokens before the command
\* literal included: they are in passthroughArgs, ahead of the tokens after
\* the command, when the invocation is built.
C12_TokensBeforeCommandForwarded ==
    /\ Parsed => initialArgs = Forwarded(argv)
    /\ \A j \in 1..Len(spawned) :
          \A n \in 1..Len(Forwarded(argv)) :
             \E m \in 1..Len(spawned[j].args) :
                spawned[j].args[m] = Tok(Forwarded(argv)[n])

---------------------------------------------------------------------------
(* C13, C15: the EC2 policy *)

\* C13: the policy prevents use of t2.micro: it reports the instance-type
\* violation if and only if the instance's instanceType is t2.micro.
C13_TypeViolationIffT2Micro ==
    validated =>
       ((\E n \in 1..Len(violations) : violations[n].about = "instanceType")
           <=> instance.instanceType = "t2.micro")

\* The tags of the instance named T that hold a non-empty value.
HasTagValue(T) ==
    /\ instance.tags # <<>>
    /\ T \in DOMAIN instance.tags[1]
    /\ instance.tags[1][T] # ""

\* C15: for every required tag T of Owner, Environment, CostCenter the
\* policy reports a violation naming T if and only if the instance has no
\* non-empty value for T (three for an instance without tags), whatever the
\* instance type; no other tag is named and none is named twice.
C15_TagViolationIffMissing ==
    validated =>
       LET tagged == {n \in 1..Len(violations) : violations[n].about = "tag"}
       IN  /\ \A T \in {"Owner", "Environment", "CostCenter"} :
                 (\E n \in tagged : violations[n].tag = T) <=> ~HasTagValue(T)
           /\ \A n \in tagged : violations[n].tag \in {"Owner", "Environment", "CostCenter"}
           /\ \A n, m \in tagged : violations[n].tag = violations[m].tag => n = m
           /\ (instance.tags = <<>> => Cardinality(tagged) = 3)

\* A t2.micro instance with an empty Owner, no Environment and a CostCenter:
\* exactly the two tag violations.
C15_Witness ==
    /\ validated
    /\ instance.instanceType = "t2.micro"
    /\ instance.tags # <<>>
    /\ DOMAIN instance.tags[1] = {"Owner", "CostCenter"}
    /\ instance.tags[1]["Owner"] = ""
    /\ instance.tags[1]["CostCenter"] = "team-a"
    /\ violations = <<[about |-> "tag", tag |-> "Owner"],
                      [about |-> "tag", tag |-> "Environment"]>>

---------------------------------------------------------------------------
(* C14: the build step *)

\* C14: before it invokes pulumi the wrapper builds the policy pack (pnpm),
\* and pulumi is not invoked unless that build succeeded.
C14_BuildBeforePulumi ==
    \A j \in 1..Len(spawned) :
       spawned[j].file = "pulumi" => \E i \in 1..(j - 1) : spawned[i].file = "pnpm"

---------------------------------------------------------------------------
(* C16: after the command nothing is interpreted *)

\* The directory that the flags taken before the command, the environment and
\* the defaults give: the last taken flag's value when it is not empty, the
\* environment's when no flag is taken and it is not empty, a default otherwise.
DirFromPrefix(flag, envValue, field, defaults) ==
    LET T == FlagsTaken(argv, flag)
    IN  IF T # {} /\ argv[Max(T) + 1] # ""
        THEN field = PathResolve(argv[Max(T) + 1])
        ELSE IF T = {} /\ envValue # ""
        THEN field = PathResolve(envValue)
        ELSE field \in defaults

PolicyDefaults ==
    {[abs |-> TRUE, segs |-> <<"work", "pulumiPolicy">>],
     [abs |-> TRUE, segs |-> <<"opt", "runner", "pulumiPolicy">>]}

ProjectDefaults == {[abs |-> TRUE, segs |-> <<"opt", "runner", "pulumiTemplate">>]}

\* The three fields are what the tokens before the command give.
FieldsFromPrefix ==
    /\ DirFromPrefix("--policy-dir", env.POLICY_DIR, POLICY_PACK_DIR, PolicyDefaults)
    /\ DirFromPrefix("--project-dir", env.PULUMI_PROJECT_DIR, PULUMI_PROJECT_DIR,
                     ProjectDefaults)
    /\ PULUMI_STACK = env.PULUMI_STACK

\* C16: once the scan meets the first command literal it stops interpreting:
\* a wrapper flag with its value after the command leaves policyDir,
\* projectDir and the stack as resolved before it, a later command literal
\* does not replace the command, and all these tokens are in passthroughArgs.
C16_NothingReadAfterCommand ==
    Parsed /\ CommandAt(argv) <= Len(argv) =>
       /\ initialCommand = argv[CommandAt(argv)]
       /\ initialArgs = SubSeq(argv, CommandAt(argv) + 1, Len(argv))
       /\ FieldsFromPrefix

\* `<command> --policy-dir dev`: the flag is passed through and sets nothing.
C16_Witness ==
    /\ Parsed
    /\ Len(argv) = 3
    /\ argv[1] \in Commands
    /\ argv[2] = "--policy-dir"
    /\ argv[3] = "dev"
    /\ env.POLICY_DIR = "./policies"
    /\ POLICY_PACK_DIR = [abs |-> TRUE, segs |-> <<"work", "policies">>]
    /\ initialArgs = <<"--policy-dir", "dev">>

---------------------------------------------------------------------------
(* C17: the order of the two checks *)

\* C17: the policy directory is checked first and the project directory only
\* after it was found; when the policy directory is missing (whatever the
\* project directory is, missing too or not) only the policy-directory error
\* is reported, the project directory is never checked and the status is 1.
C17_PolicyCheckedFirst ==
    /\ (Len(checked) >= 1 => checked[1] = POLICY_PACK_DIR)
    /\ (Len(checked) >= 2 =>
           /\ Len(checked) = 2
           /\ checked[2] = PULUMI_PROJECT_DIR
           /\ disk[POLICY_PACK_DIR] = "dir")
    /\ (checked # <<>> /\ NotADirectory(POLICY_PACK_DIR) =>
           /\ checked = <<POLICY_PACK_DIR>>
           /\ exited /\ exitCode = 1
           /\ logged = <<"policy pack directory not found">>)

\* The policy directory is missing: the run ended without a look at the
\* project directory.
C17_Witness ==
    /\ exited
    /\ checked = <<POLICY_PACK_DIR>>
    /\ disk[POLICY_PACK_DIR] = "missing"
    /\ PULUMI_PROJECT_DIR \notin DOMAIN disk
    /\ logged = <<"policy pack directory not found">>
    /\ exitCode = 1

---------------------------------------------------------------------------
(* C18: status 0 *)

\* C18: the wrapper ends with status 0 only if help was asked for or a pulumi
\* child was started and itself exited with status 0.
C18_ZeroOnlyOnSuccess ==
    exited /\ exitCode = 0 =>
       \/ HelpAsked
       \/ spawned # <<>> /\ pulumiResult = <<0>>

---------------------------------------------------------------------------
(* C19: a wrapper flag as the last token *)

\* The last token of argv is a wrapper flag with no value after it: the scan
\* meets it as a flag (no command before it), or it comes after the command.
TrailingFlag ==
    /\ argv # <<>>
    /\ argv[Len(argv)] \in WrapperFlags
    /\ \/ CommandAt(argv) < Len(argv)
       \/ CommandAt(argv) = Len(argv) + 1 /\ AtScan(argv, Len(argv))

\* C19: a wrapper flag that is the last token of argv sets no field and is
\* appended to passthroughArgs as an ordinary token; a trailing `--stack`
\* suppresses the injection of PULUMI_STACK, and pulumi is invoked with
\* `--stack` directly followed by `--policy-pack`.
C19_TrailingFlagPassedThrough ==
    Parsed /\ TrailingFlag =>
       /\ initialArgs # <<>>
       /\ initialArgs[Len(initialArgs)] = argv[Len(argv)]
       /\ FieldsFromPrefix
       /\ \A j \in 1..Len(spawned) :
             LET a == spawned[j].args
             IN  argv[Len(argv)] = "--stack" =>
                    /\ a = <<Tok(initialCommand)>> \o Toks(initialArgs) \o PolicyPackTail
                    /\ a[Len(a) - 2] = Tok("--stack")
                    /\ a[Len(a) - 1] = Tok("--policy-pack")

\* `--stack` alone with PULUMI_STACK=prod: pulumi preview --stack --policy-pack <dir>.
C19_Witness ==
    /\ spawned # <<>>
    /\ argv = <<"--stack">>
    /\ env.PULUMI_STACK = "prod"
    /\ Len(spawned[1].args) = 4
    /\ spawned[1].args[2] = Tok("--stack")
    /\ spawned[1].args[3] = Tok("--policy-pack")

====
